---------------------------- MODULE Spec2Model ----------------------------
(***************************************************************************)
(* spoken-evaluate: the JavaScript SDK (sdk/js/index.js and its            *)
(* direct-reference-audio variant), the React demo page (App.jsx) and the  *)
(* sequence aligner the backend contract describes.                        *)
(*                                                                         *)
(* JavaScript values are records [t, s, n]: t is the type tag, s the       *)
(* characters of a string, n the number (or the byte size of a Blob/File). *)
(* Strings are sequences of one-character strings so that replace, trim,   *)
(* toUpperCase and String() are computed as the engine computes them.      *)
(***************************************************************************)
EXTENDS Integers, Sequences, FiniteSets

VARIABLES
    program,        \* what runs: "sdk" (a SpokenEvaluateClient), "app" (the
                    \* page, used with uploaded files), "rec" (the page, used
                    \* with the microphone), "dtw" (the aligner)
    \* ---- SpokenEvaluateClient (both variants) ----
    sdkVariant,     \* "unified" (sdk/js/index.js) or "direct" (reference audio upload)
    sdkOptions,     \* options.baseUrl handed to the constructor
    sdkBaseUrl,     \* this.baseUrl
    sdkPc,          \* "ready" | "pending" | "settled"
    sdkPayload,     \* the payload of the evaluate call
    sdkRequest,     \* the request handed to this.fetch
    sdkFetchCalls,  \* how often this.fetch was called
    sdkResponse,    \* what fetch produced
    sdkOutcome,     \* how the promise returned by evaluate settled
    \* ---- App.jsx ----
    appEnvBase,     \* import.meta.env.VITE_API_BASE_URL
    apiBaseUrl,     \* API_BASE_URL
    mounted,        \* the component is mounted
    referenceText, referenceAudio, userAudio, result, isSubmitting, error,
    isRecording,    \* the useState cells
    mediaRecorderRef,   \* mediaRecorderRef.current: 0 is null, else a recorder
    recordingChunks,    \* recordingChunks.current
    recorders,      \* every MediaRecorder made: its state and whether its stream is live
    pendingMedia,   \* startRecording calls awaiting getUserMedia
    appRequest,     \* the request of the pending fetch of handleSubmit
    userAudioFrom,  \* history: the recorder whose onstop built userAudio, and
                    \* the recorders its chunks came from
    resetSinceSubmit,   \* history: reset ran and handleSubmit has not run since
    \* ---- Sequence Aligner (DTW core) ----
    dtwRef, dtwCand,    \* the reference and the candidate feature sequences
    dtwPc,          \* "fill" | "backtrack" | "done"
    dtwCost,        \* the cumulative-cost matrix
    dtwI, dtwJ,     \* the cell being filled, or the cell the backtracking is at
    dtwPath         \* the AlignmentPath recovered so far

sdkVars == <<sdkVariant, sdkOptions, sdkBaseUrl, sdkPc, sdkPayload, sdkRequest,
             sdkFetchCalls, sdkResponse, sdkOutcome>>

appVars == <<appEnvBase, apiBaseUrl, mounted, referenceText, referenceAudio,
             userAudio, userAudioFrom, result, isSubmitting, error, isRecording,
             mediaRecorderRef, recordingChunks, recorders, pendingMedia,
             appRequest, resetSinceSubmit>>

dtwVars == <<dtwRef, dtwCand, dtwPc, dtwCost, dtwI, dtwJ, dtwPath>>

vars == <<program, sdkVars, appVars, dtwVars>>

---------------------------------------------------------------------------
(* JavaScript values *)

Undefined == [t |-> "undefined", s |-> <<>>, n |-> 0]

Null == [t |-> "null", s |-> <<>>, n |-> 0]

Str(cs) == [t |-> "string", s |-> cs, n |-> 0]

Num(k) == [t |-> "number", s |-> <<>>, n |-> k]

Blob(size) == [t |-> "blob", s |-> <<>>, n |-> size]

Obj == [t |-> "object", s |-> <<>>, n |-> 0]

\* ToBoolean: undefined, null, "" and 0 are falsy; objects (a Blob of any
\* size included) are truthy.
Truthy(x) ==
    CASE x.t = "undefined" -> FALSE
      [] x.t = "null" -> FALSE
      [] x.t = "string" -> x.s # <<>>
      [] x.t = "number" -> x.n # 0
      [] OTHER -> TRUE

\* a || b
OrElse(a, b) == IF Truthy(a) THEN a ELSE b

Digits == <<"0", "1", "2", "3", "4", "5", "6", "7", "8", "9">>

RECURSIVE NatToChars(_)
NatToChars(k) ==
    IF k < 10 THEN <<Digits[k + 1]>>
    ELSE NatToChars(k \div 10) \o <<Digits[(k % 10) + 1]>>

\* String(x)
JsString(x) ==
    CASE x.t = "string" -> x.s
      [] x.t = "number" ->
            IF x.n < 0 THEN <<"-">> \o NatToChars(-x.n) ELSE NatToChars(x.n)
      [] x.t = "undefined" -> <<"u", "n", "d", "e", "f", "i", "n", "e", "d">>
      [] x.t = "null" -> <<"n", "u", "l", "l">>
      [] x.t = "blob" ->
            <<"[", "o", "b", "j", "e", "c", "t", " ", "B", "l", "o", "b", "]">>
      [] OTHER ->
            <<"[", "o", "b", "j", "e", "c", "t", " ", "O", "b", "j", "e", "c", "t", "]">>

LowerLetters ==
    <<"a", "b", "c", "d", "e", "f", "g", "h", "i", "j", "k", "l", "m",
      "n", "o", "p", "q", "r", "s", "t", "u", "v", "w", "x", "y", "z">>

UpperLetters ==
    <<"A", "B", "C", "D", "E", "F", "G", "H", "I", "J", "K", "L", "M",
      "N", "O", "P", "Q", "R", "S", "T", "U", "V", "W", "X", "Y", "Z">>

ToUpperChar(c) ==
    IF \E i \in DOMAIN LowerLetters : LowerLetters[i] = c
    THEN UpperLetters[CHOOSE i \in DOMAIN LowerLetters : LowerLetters[i] = c]
    ELSE c

\* String.prototype.toUpperCase
ToUpperCase(cs) == [i \in DOMAIN cs |-> ToUpperChar(cs[i])]

\* The least index at which pat occurs in cs, 0 when it does not.
IndexOf(cs, pat) ==
    LET hits == {i \in 1..(Len(cs) - Len(pat) + 1) :
                    SubSeq(cs, i, i + Len(pat) - 1) = pat}
    IN IF hits = {} THEN 0 ELSE CHOOSE i \in hits : \A j \in hits : i <= j

\* cs.replace(pat, rep) with a string pattern: the first occurrence only.
ReplaceFirst(cs, pat, rep) ==
    LET i == IndexOf(cs, pat)
    IN IF i = 0 THEN cs
       ELSE SubSeq(cs, 1, i - 1) \o rep \o SubSeq(cs, i + Len(pat), Len(cs))

\* cs.replace(/\/$/, ""): one slash at the end of the string is removed.
StripOneTrailingSlash(cs) ==
    IF Len(cs) > 0 /\ cs[Len(cs)] = "/" THEN SubSeq(cs, 1, Len(cs) - 1) ELSE cs

ApiPath == <<"/", "a", "p", "i", "/", "e", "v", "a", "l", "u", "a", "t", "e">>

\* `${baseUrl}/api/evaluate`.replace("//api", "/api")
EndpointUrl(baseUrl) ==
    ReplaceFirst(baseUrl \o ApiPath, <<"/", "/", "a", "p", "i">>, <<"/", "a", "p", "i">>)

\* (options.baseUrl || "").replace(/\/$/, "")
NormalizeBaseUrl(opt) == StripOneTrailingSlash(OrElse(opt, Str(<<>>)).s)

---------------------------------------------------------------------------
(* Responses of POST /api/evaluate as the clients see them *)

\* Bounds of the inputs.
MaxBlobSize == 1

MaxSlashes == 2

NoTranscript == [present |-> FALSE, text |-> Undefined, confidence |-> Undefined]

\* transcript: absent, {} , {text}, {text, confidence}, {text: ""}
Transcripts ==
    {NoTranscript,
     [present |-> TRUE, text |-> Undefined, confidence |-> Undefined],
     [present |-> TRUE, text |-> Str(<<"h", "i">>), confidence |-> Undefined],
     [present |-> TRUE, text |-> Str(<<"h", "i">>), confidence |-> Num(1)],
     [present |-> TRUE, text |-> Str(<<>>), confidence |-> Num(0)]}

\* detail of an error body: absent, "", a message, a list of objects (FastAPI's
\* validation errors)
Details == {Undefined, Str(<<>>), Str(<<"b", "a", "d">>), Obj}

\* overall_score of a body: absent, or a number
Scores == {Undefined, Num(87)}

\* No body at all (nothing was parsed).
NoBody ==
    [kind |-> "none", detail |-> Undefined, overall_score |-> Undefined,
     transcript |-> NoTranscript]

\* The JSON literal null.
NullBody ==
    [kind |-> "null", detail |-> Undefined, overall_score |-> Undefined,
     transcript |-> NoTranscript]

\* The JSON bodies of OK responses: the literal null, or an evaluation result
\* with or without its optional fields.
OkBodies ==
    {NullBody}
    \cup [kind : {"object"}, detail : {Undefined}, overall_score : Scores,
          transcript : Transcripts]

\* The JSON bodies of error responses: the literal null, or an object with or
\* without a detail.
ErrorBodies ==
    {NullBody}
    \cup [kind : {"object"}, detail : Details, overall_score : {Undefined},
          transcript : {NoTranscript}]

\* What a settled fetch gave: a response (its ok flag, whether its body parses
\* as JSON, the body), or a rejection with an error.
Responses ==
    [how : {"response"}, ok : {TRUE}, json : {TRUE}, body : OkBodies,
     error : {<<>>}]
    \cup [how : {"response"}, ok : {FALSE}, json : {TRUE}, body : ErrorBodies,
          error : {<<>>}]
    \cup [how : {"response"}, ok : BOOLEAN, json : {FALSE}, body : {NoBody},
          error : {<<>>}]

NoResponse ==
    [how |-> "none", ok |-> FALSE, json |-> FALSE, body |-> NoBody, error |-> <<>>]

\* What a rejected fetch carries: a TypeError with a message, possibly empty.
FetchErrors == {<<"Failed to fetch">>, <<>>}

Rejection(msg) ==
    [how |-> "rejected", ok |-> FALSE, json |-> FALSE, body |-> NoBody,
     error |-> msg]

\* What response.json() rejects with on a body that is not JSON.
JsonSyntaxError == <<"Unexpected token < in JSON">>

---------------------------------------------------------------------------
(* SpokenEvaluateClient *)

MsgMissingReferenceText == <<"missing referenceText field">>

MsgMissingReferenceAudio == <<"missing referenceAudio file">>

MsgMissingUserAudio == <<"missing userAudio file">>

MsgBadVoiceType == <<"voiceType supports only 1 (UK) or 2 (US)">>

MsgBadMode == <<"evaluationMode supports only WORD or SENTENCE">>

MsgRequestFailed == <<"request failed">>

WORD == <<"W", "O", "R", "D">>

SENTENCE == <<"S", "E", "N", "T", "E", "N", "C", "E">>

\* A destructuring default applies to undefined only.
DefaultTo(x, d) == IF x.t = "undefined" THEN d ELSE x

\* Mutant of VoiceTypeOk: a loose comparison, which also takes "1" and "2".
VoiceTypeOkLoose(v) == JsString(v) \in {<<"1">>, <<"2">>}

\* [1, 2].includes(voiceType): SameValueZero, so numbers only.
VoiceTypeOk(v) == v.t = "number" /\ v.n \in {1, 2}

\* Mutant of NormalizeMode: the upper-casing is left out.
NormalizeModeNoUpper(m) == JsString(OrElse(m, Str(WORD)))

\* String(evaluationMode || "WORD").toUpperCase()
NormalizeMode(m) == ToUpperCase(JsString(OrElse(m, Str(WORD))))

ModeOk(nm) == nm \in {WORD, SENTENCE}

\* FormData.append(name, value): a Blob stays a file, anything else is
\* converted to a string.
FormValue(x) == IF x.t = "blob" THEN x ELSE Str(JsString(x))

NoRequest ==
    [sent |-> FALSE, url |-> <<>>, reference_text |-> Undefined,
     reference_audio |-> Undefined, user_audio |-> Undefined,
     evaluation_mode |-> Undefined, voice_type |-> Undefined]

\* sdk/js/index.js, evaluate up to the fetch: the message thrown, or the request.
EvaluateUnified(baseUrl, p) ==
    LET evaluationMode == DefaultTo(p.evaluationMode, Str(WORD))
        voiceType == DefaultTo(p.voiceType, Num(2))
        normalizedMode == NormalizeMode(evaluationMode)
    IN IF ~Truthy(p.referenceText)
       THEN [threw |-> TRUE, message |-> MsgMissingReferenceText, request |-> NoRequest]
       ELSE IF ~Truthy(p.userAudio)
       THEN [threw |-> TRUE, message |-> MsgMissingUserAudio, request |-> NoRequest]
       ELSE IF ~VoiceTypeOk(voiceType)
       THEN [threw |-> TRUE, message |-> MsgBadVoiceType, request |-> NoRequest]
       ELSE IF ~ModeOk(normalizedMode)
       THEN [threw |-> TRUE, message |-> MsgBadMode, request |-> NoRequest]
       ELSE [threw |-> FALSE, message |-> <<>>,
             request |->
                [sent |-> TRUE,
                 url |-> EndpointUrl(baseUrl),
                 reference_text |-> FormValue(OrElse(p.referenceText, Str(<<>>))),
                 reference_audio |-> Undefined,
                 user_audio |-> FormValue(p.userAudio),
                 evaluation_mode |-> FormValue(Str(normalizedMode)),
                 voice_type |-> FormValue(Str(JsString(voiceType)))]]

\* The direct-reference-audio variant, evaluate up to the fetch.
EvaluateDirect(baseUrl, p) ==
    IF ~Truthy(p.referenceAudio)
    THEN [threw |-> TRUE, message |-> MsgMissingReferenceAudio, request |-> NoRequest]
    ELSE IF ~Truthy(p.userAudio)
    THEN [threw |-> TRUE, message |-> MsgMissingUserAudio, request |-> NoRequest]
    ELSE [threw |-> FALSE, message |-> <<>>,
          request |->
             [sent |-> TRUE,
              url |-> EndpointUrl(baseUrl),
              reference_text |-> FormValue(OrElse(p.referenceText, Str(<<>>))),
              reference_audio |-> FormValue(p.referenceAudio),
              user_audio |-> FormValue(p.userAudio),
              evaluation_mode |-> Undefined,
              voice_type |-> Undefined]]

\* Mutant of FailureDetail: the body of the response is not read.
FailureDetailIgnoresBody(resp) == MsgRequestFailed

\* payload?.detail || detail, then new Error(detail): the message is the
\* string form of the detail.
FailureDetail(resp) ==
    IF resp.json /\ resp.body.kind = "object" /\ Truthy(resp.body.detail)
    THEN JsString(resp.body.detail)
    ELSE MsgRequestFailed

\* Mutant of ResolveValue: a body without a transcript is given an empty one.
ResolveValueFillsTranscript(resp) ==
    IF resp.body.transcript.present THEN resp.body
    ELSE [resp.body EXCEPT !.transcript =
            [present |-> TRUE, text |-> Str(<<>>), confidence |-> Num(0)]]

\* return response.json()
ResolveValue(resp) == resp.body

NoOutcome == [kind |-> "none", message |-> <<>>, value |-> NoBody]

\* evaluate after the fetch settled with a response.
SettleWith(resp) ==
    IF ~resp.ok
    THEN [kind |-> "rejected", message |-> FailureDetail(resp), value |-> NoBody]
    ELSE IF ~resp.json
    THEN [kind |-> "rejected", message |-> JsonSyntaxError, value |-> NoBody]
    ELSE [kind |-> "resolved", message |-> <<>>, value |-> ResolveValue(resp)]

Slashes(k) == [i \in 1..k |-> "/"]

HostUrl == <<"h", "t", "t", "p", ":", "/", "/", "h">>

ApiHostUrl == <<"h", "t", "t", "p", ":", "/", "/", "a", "p", "i", ".", "h">>

\* options.baseUrl: omitted, empty, a host with 0..MaxSlashes slashes at its
\* end, a host whose name begins with "api".
BaseUrlOptions ==
    {Undefined, Str(<<>>), Str(ApiHostUrl)}
    \cup {Str(HostUrl \o Slashes(k)) : k \in 0..MaxSlashes}

ReferenceTexts == {Undefined, Str(<<>>), Str(<<"H", "i">>)}

UserAudios == {Undefined, Null} \cup {Blob(k) : k \in 0..MaxBlobSize}

ReferenceAudios == {Undefined, Blob(1)}

EvaluationModes ==
    {Undefined, Null, Str(<<>>), Str(WORD), Str(SENTENCE),
     Str(<<"w", "o", "r", "d">>), Str(<<"S", "e", "n", "t", "e", "n", "c", "e">>),
     Str(<<"P", "H", "R", "A", "S", "E">>), Num(1)}

VoiceTypes == {Undefined, Null, Num(0), Num(1), Num(2), Num(3), Str(<<"1">>)}

\* The payloads of the two variants; a field a variant does not read is left out.
Payloads(variant) ==
    IF variant = "unified"
    THEN [referenceText : ReferenceTexts, referenceAudio : {Undefined},
          userAudio : UserAudios, evaluationMode : EvaluationModes,
          voiceType : VoiceTypes]
    ELSE [referenceText : ReferenceTexts, referenceAudio : ReferenceAudios,
          userAudio : UserAudios, evaluationMode : {Undefined},
          voiceType : {Undefined}]

NoPayload ==
    [referenceText |-> Undefined, referenceAudio |-> Undefined,
     userAudio |-> Undefined, evaluationMode |-> Undefined, voiceType |-> Undefined]

\* new SpokenEvaluateClient({ baseUrl })
SdkStart ==
    /\ sdkVariant \in {"unified", "direct"}
    /\ sdkOptions \in BaseUrlOptions
    /\ sdkBaseUrl = NormalizeBaseUrl(sdkOptions)
    /\ sdkPc = "ready"
    /\ sdkPayload = NoPayload
    /\ sdkRequest = NoRequest
    /\ sdkFetchCalls = 0
    /\ sdkResponse = NoResponse
    /\ sdkOutcome = NoOutcome

\* client.evaluate(payload), to its throw or to its await of this.fetch
Evaluate(p) ==
    LET r == IF sdkVariant = "unified" THEN EvaluateUnified(sdkBaseUrl, p)
             ELSE EvaluateDirect(sdkBaseUrl, p)
    IN /\ program = "sdk"
       /\ sdkPc = "ready"
       /\ sdkPayload' = p
       /\ IF r.threw
          THEN /\ sdkPc' = "settled"
               /\ sdkOutcome' = [kind |-> "rejected", message |-> r.message,
                                 value |-> NoBody]
               /\ UNCHANGED <<sdkRequest, sdkFetchCalls>>
          ELSE /\ sdkPc' = "pending"
               /\ sdkRequest' = r.request
               /\ sdkFetchCalls' = sdkFetchCalls + 1
               /\ UNCHANGED sdkOutcome
       /\ UNCHANGED <<program, appVars, dtwVars, sdkVariant, sdkOptions, sdkBaseUrl, sdkResponse>>

\* this.fetch resolves with a response; evaluate runs to its end.
FetchResolves(resp) ==
    /\ program = "sdk"
    /\ sdkPc = "pending"
    /\ sdkPc' = "settled"
    /\ sdkResponse' = resp
    /\ sdkOutcome' = SettleWith(resp)
    /\ UNCHANGED <<program, appVars, dtwVars, sdkVariant, sdkOptions, sdkBaseUrl, sdkPayload,
                   sdkRequest, sdkFetchCalls>>

\* this.fetch rejects: the await throws and evaluate rejects with that error.
FetchRejects(msg) ==
    /\ program = "sdk"
    /\ sdkPc = "pending"
    /\ sdkPc' = "settled"
    /\ sdkResponse' = Rejection(msg)
    /\ sdkOutcome' = [kind |-> "rejected", message |-> msg, value |-> NoBody]
    /\ UNCHANGED <<program, appVars, dtwVars, sdkVariant, sdkOptions, sdkBaseUrl, sdkPayload,
                   sdkRequest, sdkFetchCalls>>

---------------------------------------------------------------------------
(* App.jsx *)

MaxRecorders == 2

MaxPendingMedia == 2

MsgNeedReferenceAudio == <<"upload the reference audio first">>

MsgNeedUserAudio == <<"record or upload the user audio">>

MsgEvaluateFailed == <<"evaluation request failed, retry later">>

MsgNetworkError == <<"network request error">>

MsgRecordFailed == <<"starting the recording failed, check the microphone permission">>

Hello == <<"H", "e", "l", "l", "o">>

IsSpace(c) == c \in {" ", "\t", "\n"}

RECURSIVE TrimStart(_)
TrimStart(cs) ==
    IF cs # <<>> /\ IsSpace(Head(cs)) THEN TrimStart(Tail(cs)) ELSE cs

RECURSIVE TrimEnd(_)
TrimEnd(cs) ==
    IF cs # <<>> /\ IsSpace(cs[Len(cs)])
    THEN TrimEnd(SubSeq(cs, 1, Len(cs) - 1)) ELSE cs

\* String.prototype.trim
Trim(cs) == TrimEnd(TrimStart(cs))

Zeros(k) == [i \in 1..k |-> "0"]

\* formatNumber(value, fractionDigits) on the whole numbers of the model
FormatNumber(value, fractionDigits) ==
    IF value.t = "number"
    THEN NatToChars(value.n) \o <<".">> \o Zeros(fractionDigits)
    ELSE <<"-">>

\* What the result card shows: nothing while result is null; the score, the
\* transcript text when result.transcript?.text is truthy, its confidence
\* when that is a number.
ResultView(res) ==
    IF res.kind # "object"
    THEN [card |-> FALSE, score |-> <<>>, transcript |-> <<>>, confidence |-> <<>>]
    ELSE LET hasText == res.transcript.present /\ Truthy(res.transcript.text)
         IN [card |-> TRUE,
             score |-> FormatNumber(res.overall_score, 1),
             transcript |-> IF hasText THEN res.transcript.text.s ELSE <<>>,
             confidence |->
                IF hasText /\ res.transcript.confidence.t = "number"
                THEN FormatNumber(res.transcript.confidence, 2) ELSE <<>>]

\* The texts typed into the textarea.
AppTexts == {Hello, <<" ">>, <<" ", "a", " ">>}

\* VITE_API_BASE_URL of the build.
AppEnvBases == {Str(HostUrl \o Slashes(1)), Str(ApiHostUrl)}

NoRecorder == [state |-> "unused", live |-> FALSE]

NoSource == [rec |-> 0, sources |-> {}]

RECURSIVE SumSizes(_)
SumSizes(chunks) ==
    IF chunks = <<>> THEN 0 ELSE Head(chunks).size + SumSizes(Tail(chunks))

\* The request handleSubmit builds.
AppFormData(text, refAudio, usrAudio) ==
    [sent |-> TRUE,
     url |-> EndpointUrl(apiBaseUrl),
     reference_text |-> FormValue(OrElse(Str(Trim(text)), Str(Hello))),
     reference_audio |-> FormValue(refAudio),
     user_audio |-> FormValue(usrAudio),
     evaluation_mode |-> Undefined,
     voice_type |-> Undefined]

\* detail?.detail of response.json().catch(() => null)
AppDetail(resp) ==
    IF resp.json /\ resp.body.kind = "object" THEN resp.body.detail ELSE Undefined

\* Whether the try block of handleSubmit throws on this fetch result.
AppFailed(resp) == resp.how = "rejected" \/ ~resp.ok \/ ~resp.json

\* err.message of what the try block throws.
AppThrown(resp) ==
    IF resp.how = "rejected" THEN resp.error
    ELSE IF ~resp.ok THEN JsString(OrElse(AppDetail(resp), Str(MsgEvaluateFailed)))
    ELSE JsonSyntaxError

\* setError(err.message || "...")
AppErrorText(resp) ==
    IF AppThrown(resp) # <<>> THEN AppThrown(resp) ELSE MsgNetworkError

\* setResult(payload)
AppResult(resp) == resp.body

AppStart ==
    /\ appEnvBase \in AppEnvBases
    /\ apiBaseUrl = NormalizeBaseUrl(appEnvBase)
    /\ mounted = TRUE
    /\ referenceText = Hello
    /\ referenceAudio = Null
    /\ userAudio = Null
    /\ userAudioFrom = NoSource
    /\ result = NullBody
    /\ isSubmitting = FALSE
    /\ error = <<>>
    /\ isRecording = FALSE
    /\ mediaRecorderRef = 0
    /\ recordingChunks = <<>>
    /\ recorders = [r \in 1..MaxRecorders |-> NoRecorder]
    /\ pendingMedia = 0
    /\ appRequest = NoRequest
    /\ resetSinceSubmit = FALSE

\* onChange of the textarea
SetReferenceText(t) ==
    /\ program = "app" /\ mounted
    /\ referenceText' = t
    /\ UNCHANGED <<program, sdkVars, dtwVars, appEnvBase, apiBaseUrl, mounted, referenceAudio,
                   userAudio, userAudioFrom, result, isSubmitting, error,
                   isRecording, mediaRecorderRef, recordingChunks, recorders,
                   pendingMedia, appRequest, resetSinceSubmit>>

HandleReferenceAudioChange(file) ==
    /\ program = "app" /\ mounted
    /\ referenceAudio' = OrElse(file, Null)
    /\ UNCHANGED <<program, sdkVars, dtwVars, appEnvBase, apiBaseUrl, mounted, referenceText,
                   userAudio, userAudioFrom, result, isSubmitting, error,
                   isRecording, mediaRecorderRef, recordingChunks, recorders,
                   pendingMedia, appRequest, resetSinceSubmit>>

HandleUserAudioChange(file) ==
    /\ program = "app" /\ mounted
    /\ userAudio' = OrElse(file, Null)
    /\ userAudioFrom' = NoSource
    /\ UNCHANGED <<program, sdkVars, dtwVars, appEnvBase, apiBaseUrl, mounted, referenceText,
                   referenceAudio, result, isSubmitting, error,
                   isRecording, mediaRecorderRef, recordingChunks, recorders,
                   pendingMedia, appRequest, resetSinceSubmit>>

\* A click on the start button (shown while !isRecording): startRecording runs
\* to its await of getUserMedia.
StartRecording ==
    /\ program = "rec" /\ mounted
    /\ ~isRecording
    /\ pendingMedia < MaxPendingMedia
    /\ pendingMedia' = pendingMedia + 1
    /\ UNCHANGED <<program, sdkVars, dtwVars, appEnvBase, apiBaseUrl, mounted, referenceText,
                   referenceAudio, userAudio, userAudioFrom, result, isSubmitting,
                   error, isRecording, mediaRecorderRef, recordingChunks,
                   recorders, appRequest, resetSinceSubmit>>

\* getUserMedia resolves: the rest of the try block of startRecording. The
\* state setters do nothing once the component is unmounted.
GetUserMediaResolves ==
    /\ program = "rec"
    /\ pendingMedia > 0
    /\ \E r \in 1..MaxRecorders :
        /\ recorders[r].state = "unused"
        /\ \A q \in 1..(r - 1) : recorders[q].state # "unused"
        /\ recorders' = [recorders EXCEPT ![r] = [state |-> "recording", live |-> TRUE]]
        /\ mediaRecorderRef' = r
    /\ pendingMedia' = pendingMedia - 1
    /\ recordingChunks' = <<>>
    /\ isRecording' = IF mounted THEN TRUE ELSE isRecording
    /\ error' = IF mounted THEN <<>> ELSE error
    /\ UNCHANGED <<program, sdkVars, dtwVars, appEnvBase, apiBaseUrl, mounted, referenceText,
                   referenceAudio, userAudio, userAudioFrom, result, isSubmitting,
                   appRequest, resetSinceSubmit>>

\* getUserMedia rejects: the catch block of startRecording.
GetUserMediaRejects ==
    /\ program = "rec"
    /\ pendingMedia > 0
    /\ pendingMedia' = pendingMedia - 1
    /\ error' = IF mounted THEN MsgRecordFailed ELSE error
    /\ UNCHANGED <<program, sdkVars, dtwVars, appEnvBase, apiBaseUrl, mounted, referenceText,
                   referenceAudio, userAudio, userAudioFrom, result, isSubmitting,
                   isRecording, mediaRecorderRef, recordingChunks, recorders,
                   appRequest, resetSinceSubmit>>

\* recorder.stop() on mediaRecorderRef.current when it is not inactive: the
\* recorder turns inactive at once and its dataavailable and stop events are
\* queued ("stopping" here).
StopRef(recs) ==
    IF mediaRecorderRef # 0 /\ recs[mediaRecorderRef].state = "recording"
    THEN [recs EXCEPT ![mediaRecorderRef].state = "stopping"]
    ELSE recs

\* A click on the stop button (shown while isRecording).
StopRecording ==
    /\ program = "rec" /\ mounted
    /\ isRecording
    /\ recorders' = StopRef(recorders)
    /\ UNCHANGED <<program, sdkVars, dtwVars, appEnvBase, apiBaseUrl, mounted, referenceText,
                   referenceAudio, userAudio, userAudioFrom, result, isSubmitting,
                   error, isRecording, mediaRecorderRef, recordingChunks,
                   pendingMedia, appRequest, resetSinceSubmit>>

\* ondataavailable: a chunk is kept when its size is positive.
PushChunk(chunks, r, size) ==
    IF size > 0 THEN Append(chunks, [from |-> r, size |-> size]) ELSE chunks

\* The queued events of a stopped recorder r: dataavailable with what it
\* recorded, then stop, whose handler builds the file from
\* recordingChunks.current and stops the tracks of r's stream.
RecorderStops(r, size) ==
    LET chunks == PushChunk(recordingChunks, r, size)
    IN /\ program = "rec"
       /\ recorders[r].state = "stopping"
       /\ recordingChunks' = chunks
       /\ recorders' = [recorders EXCEPT ![r] = [state |-> "inactive", live |-> FALSE]]
       /\ userAudio' = IF mounted THEN Blob(SumSizes(chunks)) ELSE userAudio
       /\ userAudioFrom' =
            IF mounted
            THEN [rec |-> r, sources |-> {chunks[i].from : i \in DOMAIN chunks}]
            ELSE userAudioFrom
       /\ isRecording' = IF mounted THEN FALSE ELSE isRecording
       /\ UNCHANGED <<program, sdkVars, dtwVars, appEnvBase, apiBaseUrl, mounted,
                      referenceText, referenceAudio, result, isSubmitting, error,
                      mediaRecorderRef, pendingMedia, appRequest, resetSinceSubmit>>

\* The submit button (disabled while isSubmitting): handleSubmit to its
\* return or to its await of fetch.
HandleSubmit ==
    /\ program = "app" /\ mounted
    /\ ~isSubmitting
    /\ resetSinceSubmit' = FALSE
    /\ IF ~Truthy(referenceAudio)
       THEN /\ error' = MsgNeedReferenceAudio
            /\ UNCHANGED <<isSubmitting, appRequest>>
       ELSE IF ~Truthy(userAudio)
       THEN /\ error' = MsgNeedUserAudio
            /\ UNCHANGED <<isSubmitting, appRequest>>
       ELSE /\ isSubmitting' = TRUE
            /\ error' = <<>>
            /\ appRequest' = AppFormData(referenceText, referenceAudio, userAudio)
    /\ UNCHANGED <<program, sdkVars, dtwVars, appEnvBase, apiBaseUrl, mounted, referenceText,
                   referenceAudio, userAudio, userAudioFrom, result, isRecording,
                   mediaRecorderRef, recordingChunks, recorders, pendingMedia>>

\* The pending fetch settles: the rest of the try block, catch and finally.
AppFetchSettles(resp) ==
    /\ program = "app"
    /\ appRequest.sent
    /\ appRequest' = NoRequest
    /\ result' = IF mounted /\ ~AppFailed(resp) THEN AppResult(resp) ELSE result
    /\ error' = IF mounted /\ AppFailed(resp) THEN AppErrorText(resp) ELSE error
    /\ isSubmitting' = IF mounted THEN FALSE ELSE isSubmitting
    /\ UNCHANGED <<program, sdkVars, dtwVars, appEnvBase, apiBaseUrl, mounted, referenceText,
                   referenceAudio, userAudio, userAudioFrom, isRecording,
                   mediaRecorderRef, recordingChunks, recorders, pendingMedia,
                   resetSinceSubmit>>

\* The reset button.
Reset ==
    /\ program \in {"app", "rec"} /\ mounted
    /\ referenceText' = Hello
    /\ referenceAudio' = Null
    /\ userAudio' = Null
    /\ userAudioFrom' = NoSource
    /\ result' = NullBody
    /\ error' = <<>>
    /\ resetSinceSubmit' = TRUE
    /\ UNCHANGED <<program, sdkVars, dtwVars, appEnvBase, apiBaseUrl, mounted, isSubmitting,
                   isRecording, mediaRecorderRef, recordingChunks, recorders,
                   pendingMedia, appRequest>>

\* The component unmounts: the cleanup of useEffect.
Unmount ==
    /\ program \in {"app", "rec"} /\ mounted
    /\ mounted' = FALSE
    /\ recorders' = StopRef(recorders)
    /\ UNCHANGED <<program, sdkVars, dtwVars, appEnvBase, apiBaseUrl, referenceText,
                   referenceAudio, userAudio, userAudioFrom, result, isSubmitting,
                   error, isRecording, mediaRecorderRef, recordingChunks,
                   pendingMedia, appRequest, resetSinceSubmit>>

\* The files of the two file inputs: none chosen, or a file.
ChosenFiles == {Undefined} \cup {Blob(k) : k \in 0..MaxBlobSize}

\* What the App's fetch settles with.
AppResponses == Responses \cup {Rejection(msg) : msg \in FetchErrors}

---------------------------------------------------------------------------
(* Sequence Aligner (DTW core) *)

MaxFrames == 3

\* One MFCC coefficient per frame, and the distance between two frames.
Features == {0, 1}

LocalCost(a, b) == IF a >= b THEN a - b ELSE b - a

\* The cost of a cell no path reaches.
Infinity == 1000000

Min3(a, b, c) ==
    IF a <= b /\ a <= c THEN a ELSE IF b <= c THEN b ELSE c

\* The matrix before the recurrence: (|reference|+1) x (|candidate|+1), the
\* origin at cost 0 and every other cell unreached.
InitialCost(n, m) ==
    [c \in (0..n) \X (0..m) |-> IF c = <<0, 0>> THEN 0 ELSE Infinity]

\* The recurrence: the local cost plus the least of the three canonical
\* predecessors (diagonal, vertical, horizontal).
CellCost(cost, i, j) ==
    LocalCost(dtwRef[i], dtwCand[j])
    + Min3(cost[<<i - 1, j - 1>>], cost[<<i - 1, j>>], cost[<<i, j - 1>>])

\* Mutant of Predecessor: the diagonal is always taken.
PredecessorAlwaysDiagonal(cost, i, j) == <<i - 1, j - 1>>

\* The predecessor the backtracking moves to: the cheapest of the three, the
\* diagonal when costs are equal.
Predecessor(cost, i, j) ==
    LET d == cost[<<i - 1, j - 1>>]
        v == cost[<<i - 1, j>>]
        h == cost[<<i, j - 1>>]
    IN IF d <= v /\ d <= h THEN <<i - 1, j - 1>>
       ELSE IF v <= h THEN <<i - 1, j>>
       ELSE <<i, j - 1>>

FeatureSequences ==
    UNION {[1..n -> Features] : n \in 1..MaxFrames}

DtwStart ==
    /\ dtwRef \in FeatureSequences
    /\ dtwCand \in FeatureSequences
    /\ dtwPc = "fill"
    /\ dtwCost = InitialCost(Len(dtwRef), Len(dtwCand))
    /\ dtwI = 1
    /\ dtwJ = 1
    /\ dtwPath = <<>>

\* One cell of the cumulative-cost matrix, row by row; after the last cell
\* the backtracking starts at the final cell.
FillCell ==
    /\ program = "dtw"
    /\ dtwPc = "fill"
    /\ dtwCost' = [dtwCost EXCEPT ![<<dtwI, dtwJ>>] = CellCost(dtwCost, dtwI, dtwJ)]
    /\ IF dtwJ < Len(dtwCand)
       THEN /\ dtwJ' = dtwJ + 1
            /\ UNCHANGED <<dtwI, dtwPc>>
       ELSE IF dtwI < Len(dtwRef)
       THEN /\ dtwI' = dtwI + 1
            /\ dtwJ' = 1
            /\ UNCHANGED dtwPc
       ELSE /\ dtwPc' = "backtrack"
            /\ UNCHANGED <<dtwI, dtwJ>>
    /\ UNCHANGED <<program, sdkVars, appVars, dtwRef, dtwCand, dtwPath>>

\* One step of the backtracking: the pair of the cell is put at the front of
\* the path and the walk moves to the predecessor, until it leaves the matrix
\* at the origin.
Backtrack ==
    LET prev == Predecessor(dtwCost, dtwI, dtwJ)
    IN /\ program = "dtw"
       /\ dtwPc = "backtrack"
       /\ dtwPath' = <<(<<dtwI - 1, dtwJ - 1>>)>> \o dtwPath
       /\ dtwI' = prev[1]
       /\ dtwJ' = prev[2]
       /\ dtwPc' = IF prev[1] > 0 /\ prev[2] > 0 THEN "backtrack" ELSE "done"
       /\ UNCHANGED <<program, sdkVars, appVars, dtwRef, dtwCand, dtwCost>>

DtwIdle ==
    /\ dtwRef = <<>>
    /\ dtwCand = <<>>
    /\ dtwPc = "idle"
    /\ dtwCost = <<>>
    /\ dtwI = 0
    /\ dtwJ = 0
    /\ dtwPath = <<>>

---------------------------------------------------------------------------
SdkIdle ==
    /\ sdkVariant = "unified"
    /\ sdkOptions = Undefined
    /\ sdkBaseUrl = <<>>
    /\ sdkPc = "idle"
    /\ sdkPayload = NoPayload
    /\ sdkRequest = NoRequest
    /\ sdkFetchCalls = 0
    /\ sdkResponse = NoResponse
    /\ sdkOutcome = NoOutcome

AppIdle ==
    /\ appEnvBase = Undefined
    /\ apiBaseUrl = <<>>
    /\ mounted = FALSE
    /\ referenceText = Hello
    /\ referenceAudio = Null
    /\ userAudio = Null
    /\ userAudioFrom = NoSource
    /\ result = NullBody
    /\ isSubmitting = FALSE
    /\ error = <<>>
    /\ isRecording = FALSE
    /\ mediaRecorderRef = 0
    /\ recordingChunks = <<>>
    /\ recorders = [r \in 1..MaxRecorders |-> NoRecorder]
    /\ pendingMedia = 0
    /\ appRequest = NoRequest
    /\ resetSinceSubmit = FALSE

SdkInit == program = "sdk" /\ SdkStart /\ AppIdle /\ DtwIdle

AppInit == program \in {"app", "rec"} /\ AppStart /\ SdkIdle /\ DtwIdle

DtwInit == program = "dtw" /\ DtwStart /\ SdkIdle /\ AppIdle

Init == SdkInit \/ AppInit \/ DtwInit

Next ==
    \/ \E p \in Payloads(sdkVariant) : Evaluate(p)
    \/ \E resp \in Responses : FetchResolves(resp)
    \/ \E msg \in FetchErrors : FetchRejects(msg)
    \/ \E t \in AppTexts : SetReferenceText(t)
    \/ \E f \in ChosenFiles : HandleReferenceAudioChange(f)
    \/ \E f \in ChosenFiles : HandleUserAudioChange(f)
    \/ StartRecording
    \/ GetUserMediaResolves
    \/ GetUserMediaRejects
    \/ StopRecording
    \/ \E r \in 1..MaxRecorders, size \in 0..MaxBlobSize : RecorderStops(r, size)
    \/ HandleSubmit
    \/ \E resp \in AppResponses : AppFetchSettles(resp)
    \/ Reset
    \/ Unmount
    \/ FillCell
    \/ Backtrack

Spec == Init /\ [][Next]_vars

---------------------------------------------------------------------------
(* The claims *)

\* evaluate was called on the client.
SdkCalled == program = "sdk" /\ sdkPc \in {"pending", "settled"}

\* No request left the client and its promise is rejected.
SdkRejectedUnsent ==
    /\ ~sdkRequest.sent
    /\ sdkFetchCalls = 0
    /\ sdkOutcome.kind = "rejected"

\* User audio that is absent, or a Blob/File of size 0.
EmptyAudio(x) == x.t \in {"undefined", "null"} \/ (x.t = "blob" /\ x.n = 0)

\* C1: missing or zero-length user audio is rejected before any request is
\* sent: evaluate (both variants) never calls fetch and rejects, and the page
\* never has a request in flight whose user audio is empty.
C1_EmptyAudioRejected ==
    /\ (SdkCalled /\ EmptyAudio(sdkPayload.userAudio)) => SdkRejectedUnsent
    /\ (program \in {"app", "rec"} /\ appRequest.sent)
            => ~EmptyAudio(appRequest.user_audio)

\* The spellings of w in which each letter is in either case.
SameIgnoringCase(cs, w) ==
    /\ Len(cs) = Len(w)
    /\ \A i \in 1..Len(w) :
          \/ cs[i] = w[i]
          \/ \E k \in DOMAIN UpperLetters :
                UpperLetters[k] = w[i] /\ LowerLetters[k] = cs[i]

\* C2 as stated: evaluate sends a request only if evaluationMode was exactly
\* "WORD" or "SENTENCE" or was omitted, and every sent request carries one of
\* the two modes, "WORD" when the field was omitted.
C2_OnlyExactModes ==
    (SdkCalled /\ sdkVariant = "unified") =>
        /\ sdkRequest.sent =>
              /\ sdkRequest.evaluation_mode \in {Str(WORD), Str(SENTENCE)}
              /\ sdkPayload.evaluationMode \in {Undefined, Str(WORD), Str(SENTENCE)}
              /\ sdkPayload.evaluationMode = Undefined
                    => sdkRequest.evaluation_mode = Str(WORD)
        /\ sdkPayload.evaluationMode \notin {Undefined, Str(WORD), Str(SENTENCE)}
              => SdkRejectedUnsent

\* The mode a request carries for a given evaluationMode: WORD for a falsy
\* value, the mode the string form spells in any letter case, none otherwise.
ModeSent(m) ==
    IF ~Truthy(m) THEN {WORD}
    ELSE IF m.t # "string" THEN {}
    ELSE {w \in {WORD, SENTENCE} : SameIgnoringCase(m.s, w)}

\* C2 as amended: every sent request carries WORD or SENTENCE; a falsy
\* evaluationMode (omitted, null, "") is sent as WORD, a value whose string
\* form upper-cases to WORD or SENTENCE ("word", "Sentence") is sent as that
\* mode, and any other value makes evaluate fail without a request.
C2_ModesNormalized ==
    (SdkCalled /\ sdkVariant = "unified") =>
        LET m == sdkPayload.evaluationMode
            valid == /\ Truthy(sdkPayload.referenceText)
                     /\ Truthy(sdkPayload.userAudio)
                     /\ sdkPayload.voiceType \in {Undefined, Num(1), Num(2)}
        IN /\ sdkRequest.sent =>
                /\ sdkRequest.evaluation_mode \in {Str(WORD), Str(SENTENCE)}
                /\ sdkRequest.evaluation_mode.s \in ModeSent(m)
           /\ ModeSent(m) = {} => SdkRejectedUnsent
           /\ (ModeSent(m) # {} /\ valid) => sdkRequest.sent

\* Witness of C2: a request was sent for evaluationMode "word", carrying WORD.
C2_Witness ==
    /\ SdkCalled /\ sdkVariant = "unified"
    /\ sdkPayload.evaluationMode = Str(<<"w", "o", "r", "d">>)
    /\ sdkRequest.sent
    /\ sdkRequest.evaluation_mode = Str(WORD)

\* C3: whenever a request is sent its reference_text is a non-empty string,
\* and an empty or missing reference text of the caller is sent as "Hello"
\* (page and both SDK variants).
C3_ReferenceTextNonEmpty ==
    /\ (program = "sdk" /\ sdkRequest.sent) =>
          /\ sdkRequest.reference_text.t = "string"
          /\ sdkRequest.reference_text.s # <<>>
          /\ ~Truthy(sdkPayload.referenceText)
                => sdkRequest.reference_text = Str(Hello)
    /\ (SdkCalled /\ ~Truthy(sdkPayload.referenceText)
            /\ Truthy(sdkPayload.userAudio)
            /\ (sdkVariant = "direct" => Truthy(sdkPayload.referenceAudio))
            /\ sdkPayload.voiceType = Undefined
            /\ sdkPayload.evaluationMode = Undefined)
          => sdkRequest.sent
    /\ (program \in {"app", "rec"} /\ appRequest.sent) =>
          /\ appRequest.reference_text.t = "string"
          /\ appRequest.reference_text.s # <<>>

\* C4: the voice selector accepts only 1 and 2 and defaults to 2: without
\* voiceType the request carries "2", with 1 or 2 it carries "1" or "2", and
\* any other value makes evaluate fail without a request.
C4_VoiceType ==
    (SdkCalled /\ sdkVariant = "unified") =>
        LET v == sdkPayload.voiceType
            allowed == v \in {Undefined, Num(1), Num(2)}
        IN /\ sdkRequest.sent =>
                /\ allowed
                /\ sdkRequest.voice_type =
                      (IF v = Num(1) THEN Str(<<"1">>) ELSE Str(<<"2">>))
           /\ ~allowed => SdkRejectedUnsent

\* Witness of C4: a request sent without voiceType carries voice_type "2".
C4_Witness ==
    /\ SdkCalled /\ sdkVariant = "unified"
    /\ sdkPayload.voiceType = Undefined
    /\ sdkRequest.sent
    /\ sdkRequest.voice_type = Str(<<"2">>)

\* The request of the client failed: fetch rejected, or the status is not OK.
SdkRequestFailed ==
    /\ program = "sdk" /\ sdkPc = "settled"
    /\ \/ sdkResponse.how = "rejected"
       \/ sdkResponse.how = "response" /\ ~sdkResponse.ok

\* The body is JSON with a truthy detail.
HasDetail(resp) ==
    resp.how = "response" /\ resp.json /\ resp.body.kind = "object"
    /\ Truthy(resp.body.detail)

\* C5 as stated: a failed request (non-OK status, or fetch rejecting) makes
\* evaluate reject with the body's detail as the message when the body is
\* JSON with a truthy detail and with "request failed" otherwise, and never
\* resolve with a value.
C5_MessageIsDetail ==
    SdkRequestFailed =>
        /\ sdkOutcome.kind = "rejected"
        /\ sdkOutcome.value = NoBody
        /\ IF HasDetail(sdkResponse)
           THEN /\ sdkResponse.body.detail.t = "string"
                /\ sdkOutcome.message = sdkResponse.body.detail.s
           ELSE sdkOutcome.message = MsgRequestFailed

\* The string form of the details of the model.
DetailText(d) ==
    IF d.t = "string" THEN d.s
    ELSE <<"[", "o", "b", "j", "e", "c", "t", " ", "O", "b", "j", "e", "c", "t", "]">>

\* The client's part of C5 as amended.
C5_SdkAllOrNothing ==
    SdkRequestFailed =>
        /\ sdkOutcome.kind = "rejected"
        /\ sdkOutcome.value = NoBody
        /\ sdkOutcome.message =
              (IF sdkResponse.how = "rejected" THEN sdkResponse.error
               ELSE IF HasDetail(sdkResponse)
               THEN DetailText(sdkResponse.body.detail)
               ELSE MsgRequestFailed)

\* The page's part of C5: the step in which a failed request settles.
C5_AppAllOrNothing ==
    (program = "app" /\ mounted /\ appRequest.sent /\ ~appRequest'.sent) =>
        \A resp \in AppResponses :
            (AppFetchSettles(resp) /\ (resp.how = "rejected" \/ ~resp.ok))
            => /\ error' # <<>>
               /\ result' = result
               /\ isSubmitting' = FALSE

\* C5 as amended: after a non-OK response evaluate rejects with the string
\* form of the body's detail when the body is a JSON object with a truthy
\* detail and with "request failed" otherwise; after a rejected fetch it
\* rejects with the error of fetch; it never resolves with a value. On the
\* page a failed request sets a non-empty error, leaves result as it was and
\* puts isSubmitting back to false.
C5_AllOrNothing == [](C5_SdkAllOrNothing) /\ [][C5_AppAllOrNothing]_vars

\* Witness of C5: fetch rejected and evaluate rejected with the error of fetch.
C5_Witness ==
    /\ SdkRequestFailed
    /\ sdkResponse.how = "rejected"
    /\ sdkResponse.error = <<"Failed to fetch">>
    /\ sdkOutcome.kind = "rejected"
    /\ sdkOutcome.message = <<"Failed to fetch">>

\* An OK response whose body is JSON.
OkJson(resp) == resp.how = "response" /\ resp.ok /\ resp.json

\* The body with a transcript put in.
WithTranscript(body) ==
    [body EXCEPT !.transcript =
        [present |-> TRUE, text |-> Str(<<"h", "i">>), confidence |-> Num(1)]]

\* The client's part of C6.
C6_SdkResolves ==
    (program = "sdk" /\ sdkPc = "settled" /\ OkJson(sdkResponse)) =>
        /\ sdkOutcome.kind = "resolved"
        /\ sdkOutcome.value = sdkResponse.body

\* The page's part of C6: the step in which an OK response settles.
C6_AppStores ==
    (program = "app" /\ mounted /\ appRequest.sent /\ ~appRequest'.sent) =>
        \A resp \in AppResponses :
            (AppFetchSettles(resp) /\ OkJson(resp))
            => /\ result' = resp.body
               /\ error' = error
               /\ isSubmitting' = FALSE
               /\ resp.body.kind = "object" =>
                    /\ ResultView(result').card
                    /\ ResultView(result').score
                          = ResultView(WithTranscript(result')).score

\* C6: an absent transcript is never an error: for every OK response, with
\* or without a transcript (and with or without its text and confidence),
\* evaluate resolves with the body unchanged, and the page stores it as
\* result, raises no error and shows the score as for a body with a transcript.
C6_TranscriptOptional == [](C6_SdkResolves) /\ [][C6_AppStores]_vars

\* Witness of C6: evaluate resolved with a result that has no transcript.
C6_Witness ==
    /\ program = "sdk" /\ sdkPc = "settled" /\ OkJson(sdkResponse)
    /\ sdkResponse.body.kind = "object"
    /\ ~sdkResponse.body.transcript.present
    /\ sdkOutcome.kind = "resolved"
    /\ ~sdkOutcome.value.transcript.present

\* C7: the AlignmentPath of a finished alignment starts at (0,0), ends at
\* (lastRef, lastCandidate), and neither index decreases from a pair to the
\* next.
C7_PathMonotone ==
    (program = "dtw" /\ dtwPc = "done") =>
        /\ dtwPath # <<>>
        /\ dtwPath[1] = <<0, 0>>
        /\ dtwPath[Len(dtwPath)] = <<Len(dtwRef) - 1, Len(dtwCand) - 1>>
        /\ \A k \in 1..(Len(dtwPath) - 1) :
              /\ dtwPath[k][1] <= dtwPath[k + 1][1]
              /\ dtwPath[k][2] <= dtwPath[k + 1][2]

\* Witness of C7: a finished alignment of a reference longer than the
\* candidate, whose path therefore has a step that keeps the candidate index.
C7_Witness ==
    /\ program = "dtw" /\ dtwPc = "done"
    /\ Len(dtwCand) > 1 /\ Len(dtwRef) > Len(dtwCand)
    /\ Len(dtwPath) = Len(dtwRef)

RECURSIVE StripTrailingSlashes(_)
StripTrailingSlashes(cs) ==
    IF cs # <<>> /\ cs[Len(cs)] = "/"
    THEN StripTrailingSlashes(SubSeq(cs, 1, Len(cs) - 1)) ELSE cs

\* The URL the claim expects for a configured base URL.
ExpectedUrl(base) ==
    StripTrailingSlashes(IF base.t = "string" THEN base.s ELSE <<>>) \o ApiPath

\* C8: the URL requested is the configured base URL without its trailing
\* slashes, followed by "/api/evaluate" (client and page).
C8_UrlKeepsHost ==
    /\ (program = "sdk" /\ sdkRequest.sent) => sdkRequest.url = ExpectedUrl(sdkOptions)
    /\ (program \in {"app", "rec"} /\ appRequest.sent)
            => appRequest.url = ExpectedUrl(appEnvBase)

\* C9: a MediaRecorder that is recording is the one in mediaRecorderRef; once
\* no recording is shown or awaited no recorder records and no stream is
\* live; the chunks of a recorded userAudio come from the recorder that was
\* stopped.
C9_RecorderTracked ==
    program = "rec" =>
        /\ \A r \in 1..MaxRecorders :
              recorders[r].state = "recording" => mediaRecorderRef = r
        /\ (mounted /\ ~isRecording /\ pendingMedia = 0) =>
              \A r \in 1..MaxRecorders :
                  recorders[r].state # "recording" /\ ~recorders[r].live
        /\ userAudioFrom.sources \subseteq {userAudioFrom.rec}

\* C10: after reset, and until handleSubmit runs again, result stays null and
\* no request's failure is written into error (the error of a failed start
\* of a recording is not what the claim is about).
C10_ResetHolds ==
    (program \in {"app", "rec"} /\ resetSinceSubmit) =>
        /\ result = NullBody
        /\ error \in {<<>>, MsgRecordFailed}

=============================================================================
